---------------------------- MODULE Spec2Model ----------------------------
(***************************************************************************)
(* Team / internship project allocation (student_assignment.py).          *)
(*                                                                         *)
(* The script is a straight-line batch program.  Its state is the         *)
(* assignment ledger (assignments, a defaultdict of member lists whose    *)
(* keys are created on first read), the bookkeeping lists of the phases   *)
(* (assigned_set, not_viable, to_reassign, leftovers, unassigned_students)*)
(* and the result table.  One action models one loop iteration or one     *)
(* straight-line statement group of the script.  Students and projects    *)
(* are named by their row number in the two input tables.                 *)
(***************************************************************************)
EXTENDS Integers, Sequences, FiniteSets, TLC

\* ------------------------------------------------------------------
\* Bounds of the model
\* ------------------------------------------------------------------
NumStudents == 3
NumProjects == 2

\* the balanced scenario: 2 projects of ScenarioCapacity seats, ScenarioStudents students
ScenarioStudents == 8
ScenarioCapacity == 4

\* ------------------------------------------------------------------
\* Program constants
\* ------------------------------------------------------------------
NumPrefs == 5
NationalityCap == 2
BackgroundCap == 2
MinShared == 2

\* a Pref cell naming no row of projects.csv (misspelt, empty, NaN)
UnknownProject == 0

Types == {"Company", "TUe"}
Nationalities == {"NL", "DE"}
Backgrounds == {"CS", "ME"}

VARIABLES
    df,                  \* student table: Name -> row
    proj_types,          \* Project -> Type
    proj_capacity,       \* Project -> Capacity
    student_order,       \* the shuffled list of names
    assignments,         \* Project -> list of names (value of each key; [] when the key is absent)
    assign_keys,         \* the keys of the defaultdict, in insertion order
    assigned_set,
    unassigned_students,
    not_viable,
    to_reassign,
    leftovers,
    result_df,           \* the sorted ledger written to assigned_teams.csv
    log,                 \* the placement / failure lines printed so far
    pc,                  \* position in the script
    pref_i,              \* STEP 1: index into pref_cols
    pos,                 \* STEP 1: index into student_order
    ev_i,                \* STEP 2: index into not_viable
    i3,                  \* STEP 3: index into to_reassign
    i4                   \* STEP 4: index into leftovers

inputs == <<df, proj_types, proj_capacity, student_order>>
ledger == <<assignments, assign_keys, assigned_set, unassigned_students>>
phase  == <<not_viable, to_reassign, leftovers, result_df>>
ctl    == <<pc, pref_i, pos, ev_i, i3, i4>>
vars   == <<inputs, ledger, phase, ctl, log>>

\* df["Name"], as a set and in table order
Names == DOMAIN df
NameColumn == [n \in 1..Cardinality(DOMAIN df) |-> n]

\* the keys of proj_capacity, and projects = list(proj_types.keys())
Projects == DOMAIN proj_capacity
projects == [i \in 1..Cardinality(DOMAIN proj_types) |-> i]

\* ------------------------------------------------------------------
\* Helpers
\* ------------------------------------------------------------------
InSeq(x, s) == \E i \in DOMAIN s : s[i] = x

\* set(ts.split(",")): the tokens of the TimeSlots cell, duplicates and order dropped
SlotSet(ts) == {ts[i] : i \in DOMAIN ts}

\* set.intersection(*all_slots) over a non-empty family of sets
SetIntersection(family) ==
    {x \in UNION family : \A S \in family : x \in S}

\* members_df = df[df["Name"].isin(assignments[project])]
MembersDf(project, asg) == {n \in Names : InSeq(n, asg[project])}

\* the capacity test with > where the script has >=
CapacityReachedOffByOne(project, asg) == Len(asg[project]) > proj_capacity[project]

\* len(assignments[project]) >= proj_capacity[project]
CapacityReached(project, asg) == Len(asg[project]) >= proj_capacity[project]

\* the nationality test with > where the script has >=
NationalityCapExceeded(student_row, members) ==
    Cardinality({m \in members : df[m].Nationality = student_row.Nationality})
        > NationalityCap

\* nats.count(student_row["Nationality"]) >= 2
NationalityCapReached(student_row, members) ==
    Cardinality({m \in members : df[m].Nationality = student_row.Nationality})
        >= NationalityCap

\* the background test with a cap of one: bgs.count(...) >= 1
BackgroundCapReachedAtOne(student_row, members) ==
    Cardinality({m \in members : df[m].Background = student_row.Background})
        >= BackgroundCap - 1

\* bgs.count(student_row["Background"]) >= 2
BackgroundCapReached(student_row, members) ==
    Cardinality({m \in members : df[m].Background = student_row.Background})
        >= BackgroundCap

\* the shared slots taken with set.union(*all_slots)
SharedSlotsUnion(student_row, members) ==
    UNION ({SlotSet(df[m].TimeSlots) : m \in members}
               \cup {SlotSet(student_row.TimeSlots)})

\* shared = set.intersection(*all_slots)
SharedSlots(student_row, members) ==
    SetIntersection({SlotSet(df[m].TimeSlots) : m \in members}
                        \cup {SlotSet(student_row.TimeSlots)})

\* the overlap test asking for one shared slot only
OverlapEmpty(student_row, members) ==
    members # {} /\ Cardinality(SharedSlots(student_row, members)) < MinShared - 1

\* the time overlap rule, applied only when the project has members
OverlapTooSmall(student_row, members) ==
    members # {} /\ Cardinality(SharedSlots(student_row, members)) < MinShared

\* can_assign(student_row, project, assignments), the value it returns
can_assign(student_row, project, asg) ==
    IF project \notin DOMAIN proj_capacity THEN FALSE
    ELSE IF CapacityReached(project, asg) THEN FALSE
    ELSE LET members == MembersDf(project, asg)
         IN  IF NationalityCapReached(student_row, members) THEN FALSE
             ELSE IF BackgroundCapReached(student_row, members) THEN FALSE
             ELSE IF OverlapTooSmall(student_row, members) THEN FALSE
             ELSE TRUE

\* can_assign reads assignments[project] once the project is known to be in
\* proj_capacity: the defaultdict then creates the key
Touch(keys, project) ==
    IF project \notin DOMAIN proj_capacity \/ InSeq(project, keys)
    THEN keys ELSE Append(keys, project)

RECURSIVE TouchAll(_, _)
TouchAll(keys, ps) ==
    IF ps = <<>> THEN keys
    ELSE TouchAll(Touch(keys, Head(ps)), Tail(ps))

\* the results random.shuffle can give for a list of the names in S
Shuffles(S) ==
    {f \in [1..Cardinality(S) -> S] : \A i, j \in DOMAIN f : i # j => f[i] # f[j]}

\* ------------------------------------------------------------------
\* Input tables (student_preferences.csv, projects.csv)
\* ------------------------------------------------------------------
\* the project after p in a projects.csv of P rows, cyclically
NextProject(p, P) == (p % P) + 1

\* Pref1..Pref5 of a student whose first choice is p and whose last choice is the
\* next project, the cells between naming no project
Direct(p, P) == <<p, UnknownProject, UnknownProject, UnknownProject, NextProject(p, P)>>

\* a student who names only p, in Pref2 and again in Pref3
Delayed(p) == <<UnknownProject, p, p, UnknownProject, UnknownProject>>

\* no cell names a project of projects.csv
Nothing == [i \in 1..NumPrefs |-> UnknownProject]

\* three projects ranked one after the other, starting at p
Ranking(p, P) ==
    <<p, NextProject(p, P), NextProject(NextProject(p, P), P), UnknownProject, UnknownProject>>

PrefLists(P) == {Direct(p, P) : p \in 1..P} \cup {Delayed(p) : p \in 1..P} \cup {Nothing}

\* TimeSlots cells: two slots, the same two in another order plus a third, one slot twice
TimeSlotCells == {<<"Mon", "Tue">>, <<"Tue", "Mon", "Wed">>, <<"Wed", "Wed">>}

AlternateNationality(s) == IF s % 2 = 1 THEN "NL" ELSE "DE"
AlternateBackground(s) == IF (s \div 2) % 2 = 0 THEN "CS" ELSE "ME"
AlternateType(i) == IF i % 2 = 1 THEN "Company" ELSE "TUe"

\* a student whose attributes let them sit with any two others
Compatible(s, prefs, type) ==
    [Nationality |-> AlternateNationality(s), Background |-> AlternateBackground(s),
     TimeSlots |-> <<"Mon", "Tue">>, Prefs |-> prefs, CompanyPreference |-> type]

\* rosters that vary what the students ask for
PreferenceRosters(N, P) ==
    {[s \in 1..N |-> Compatible(s, c[s], AlternateType(s))] : c \in [1..N -> PrefLists(P)]}

\* rosters that vary who can sit together; every student asks for the first project
\* and, last, for the second
CompositionRosters(N, P) ==
    {[s \in 1..N |->
        [Nationality |-> c[s][1], Background |-> c[s][2], TimeSlots |-> c[s][3],
         Prefs |-> Direct(1, P), CompanyPreference |-> AlternateType(s)]] :
     c \in [1..N -> Nationalities \X Backgrounds \X TimeSlotCells]}

\* rosters of students who each rank three projects
RankingRosters(N, P) ==
    {[s \in 1..N |-> Compatible(s, Ranking(c[s], P), AlternateType(s))] : c \in [1..N -> 1..P]}

Sum(f) ==
    LET RECURSIVE S(_)
        S(D) == IF D = {} THEN 0
                ELSE LET x == CHOOSE x \in D : TRUE IN f[x] + S(D \ {x})
    IN S(DOMAIN f)

\* the script raises ValueError before STEP 1 when the total capacity is short
CapacityValid(caps, roster) == ~(Sum(caps) < Cardinality(DOMAIN roster))

Init ==
    /\ \/ /\ df \in PreferenceRosters(NumStudents, NumProjects)
          /\ proj_types \in [1..NumProjects -> Types]
          /\ proj_capacity \in [1..NumProjects -> {1, 2, 4, 6}]
       \/ /\ df \in CompositionRosters(NumStudents, NumProjects)
          /\ proj_types = [p \in 1..NumProjects |-> AlternateType(p)]
          /\ proj_capacity \in [1..NumProjects -> {3, 6}]
       \/ /\ df \in RankingRosters(NumStudents, NumProjects + 1)
          /\ proj_types \in [1..(NumProjects + 1) -> Types]
          /\ proj_capacity \in [1..(NumProjects + 1) -> {2, 4}]
    /\ CapacityValid(proj_capacity, df)
    /\ student_order \in Shuffles(DOMAIN df)
    /\ assignments = [p \in DOMAIN proj_capacity |-> <<>>]
    /\ assign_keys = <<>>
    /\ assigned_set = {}
    /\ unassigned_students = <<>>
    /\ not_viable = <<>>
    /\ to_reassign = <<>>
    /\ leftovers = <<>>
    /\ result_df = <<>>
    /\ log = <<>>
    /\ pc = "step1"
    /\ pref_i = 1
    /\ pos = 1
    /\ ev_i = 1
    /\ i3 = 1
    /\ i4 = 1

\* ------------------------------------------------------------------
\* Input tables of the balanced scenario: two projects, the first half of the
\* students rank project 1 first, the second half project 2
\* ------------------------------------------------------------------
FirstChoice(s) == IF s <= ScenarioStudents \div 2 THEN 1 ELSE 2

ScenarioStudent(s, nat, bg, slots, prefs) ==
    [Nationality |-> nat, Background |-> bg, TimeSlots |-> slots,
     Prefs |-> prefs, CompanyPreference |-> AlternateType(s)]

\* every group of first-choice students can sit together
BalancedRoster ==
    [s \in 1..ScenarioStudents |->
        ScenarioStudent(s, AlternateNationality(s), AlternateBackground(s),
                        <<"Mon", "Tue">>, Direct(FirstChoice(s), 2))]

\* rosters that vary the Background column
BackgroundRosters ==
    {[s \in 1..ScenarioStudents |->
        ScenarioStudent(s, AlternateNationality(s), c[s],
                        <<"Mon", "Tue">>, Direct(FirstChoice(s), 2))] :
     c \in [1..ScenarioStudents -> Backgrounds]}

\* rosters that vary the Nationality column; the other project is ranked second
NationalityRosters ==
    {[s \in 1..ScenarioStudents |->
        ScenarioStudent(s, c[s], AlternateBackground(s),
                        <<"Mon", "Tue">>, Ranking(FirstChoice(s), 2))] :
     c \in [1..ScenarioStudents -> Nationalities]}

\* rosters that vary the TimeSlots column, the same cells in both groups
SlotRosters ==
    {[s \in 1..ScenarioStudents |->
        ScenarioStudent(s, AlternateNationality(s), AlternateBackground(s),
                        c[((s - 1) % (ScenarioStudents \div 2)) + 1],
                        Direct(FirstChoice(s), 2))] :
     c \in [1..(ScenarioStudents \div 2) -> TimeSlotCells]}

\* the table order started at row k + 1, and the same read backwards
Rotation(k, n) == [i \in 1..n |-> ((i + k - 1) % n) + 1]
Rotations(n) ==
    {Rotation(k, n) : k \in 0..(n - 1)}
        \cup {[i \in 1..n |-> Rotation(k, n)[n + 1 - i]] : k \in 0..(n - 1)}

\* The balanced roster is run under every result of random.shuffle, the other
\* rosters under the rotations of the table order.
BalancedInit ==
    /\ \/ /\ df = BalancedRoster
          /\ student_order \in Permutations(1..ScenarioStudents)
       \/ /\ df \in BackgroundRosters \cup NationalityRosters \cup SlotRosters
          /\ student_order \in Rotations(ScenarioStudents)
    /\ proj_types = [p \in 1..2 |-> AlternateType(p)]
    /\ proj_capacity = [p \in 1..2 |-> ScenarioCapacity]
    /\ CapacityValid(proj_capacity, df)
    /\ assignments = [p \in DOMAIN proj_capacity |-> <<>>]
    /\ assign_keys = <<>>
    /\ assigned_set = {}
    /\ unassigned_students = <<>>
    /\ not_viable = <<>>
    /\ to_reassign = <<>>
    /\ leftovers = <<>>
    /\ result_df = <<>>
    /\ log = <<>>
    /\ pc = "step1"
    /\ pref_i = 1
    /\ pos = 1
    /\ ev_i = 1
    /\ i3 = 1
    /\ i4 = 1

\* ------------------------------------------------------------------
\* STEP 1: initial preference assignment
\* ------------------------------------------------------------------
\* the iteration test without `if name in assigned_set: continue`
ContinuesOnlyUnknown(pref, p, assigned) ==
    df[student_order[p]].Prefs[pref] \notin DOMAIN proj_capacity

\* the iteration (pref, p) takes one of the two `continue`s
Continues(pref, p, assigned) ==
    \/ student_order[p] \in assigned
    \/ df[student_order[p]].Prefs[pref] \notin DOMAIN proj_capacity

\* the two loops nested the other way round (`for name in student_order:
\* for pref in pref_cols`): each student's five cells are tried in one go
RECURSIVE NextVisitStudentMajor(_, _, _)
NextVisitStudentMajor(pref, p, assigned) ==
    LET n == IF pref < NumPrefs THEN <<pref + 1, p>> ELSE <<1, p + 1>>
    IN  IF n[2] > Len(student_order) THEN <<NumPrefs + 1, 1>>
        ELSE IF Continues(n[1], n[2], assigned)
             THEN NextVisitStudentMajor(n[1], n[2], assigned)
        ELSE n

\* the loop indices of the next iteration that reaches can_assign;
\* <<NumPrefs + 1, 1>> when both loops end first
RECURSIVE NextVisit(_, _, _)
NextVisit(pref, p, assigned) ==
    LET n == IF p < Len(student_order) THEN <<pref, p + 1>> ELSE <<pref + 1, 1>>
    IN  IF n[1] > NumPrefs THEN n
        ELSE IF Continues(n[1], n[2], assigned) THEN NextVisit(n[1], n[2], assigned)
        ELSE n

\* One iteration of the inner loop, followed by the iterations after it that
\* only `continue` (they change nothing but the loop indices).
InitialVisit ==
    /\ pc = "step1"
    /\ LET name == student_order[pos]
           row  == df[name]
           proj == row.Prefs[pref_i]
           skip == Continues(pref_i, pos, assigned_set)
       IN  \E ok \in {~skip /\ can_assign(row, proj, assignments)} :
           /\ assign_keys' = IF skip THEN assign_keys ELSE Touch(assign_keys, proj)
           /\ assignments' = IF ok THEN [assignments EXCEPT ![proj] = Append(@, name)]
                             ELSE assignments
           /\ assigned_set' = IF ok THEN assigned_set \cup {name} ELSE assigned_set
           /\ log' = IF ok
                     THEN Append(log, [kind |-> "initial", name |-> name,
                                       proj |-> proj, rank |-> pref_i])
                     ELSE log
    /\ \E n \in {NextVisit(pref_i, pos, assigned_set')} :
           IF n[1] > NumPrefs
           THEN pref_i' = pref_i /\ pos' = pos /\ pc' = "step2"
           ELSE pref_i' = n[1] /\ pos' = n[2] /\ pc' = pc
    /\ UNCHANGED <<inputs, unassigned_students, phase, ev_i, i3, i4>>

\* ------------------------------------------------------------------
\* STEP 2: drop undersubscribed projects
\* ------------------------------------------------------------------
\* len(members) < (proj_capacity[p] // 2)
Undersubscribed(p, asg) == Len(asg[p]) < (proj_capacity[p] \div 2)

\* not_viable = [p for p, members in assignments.items() if ...]
NotViableList(keys, asg) == SelectSeq(keys, LAMBDA p : Undersubscribed(p, asg))

DropUndersubscribed ==
    /\ pc = "step2"
    /\ not_viable' = NotViableList(assign_keys, assignments)
    /\ to_reassign' = <<>>
    /\ ev_i' = 1
    /\ pc' = IF not_viable' = <<>> THEN "step3" ELSE "evict"
    /\ UNCHANGED <<inputs, ledger, leftovers, result_df, log, pref_i, pos, i3, i4>>

\* the eviction with `assignments[p].pop()` where the script has `assignments[p] = []`:
\* only the last member leaves the project
EvictLastMemberOnly ==
    /\ pc = "evict"
    /\ LET p == not_viable[ev_i]
           n == Len(assignments[p])
       IN  /\ to_reassign' = to_reassign \o SubSeq(assignments[p], n, n)
           /\ assignments' = [assignments EXCEPT ![p] = SubSeq(@, 1, n - 1)]
    /\ ev_i' = ev_i + 1
    /\ pc' = IF ev_i < Len(not_viable) THEN "evict" ELSE "step3"
    /\ UNCHANGED <<inputs, assign_keys, assigned_set, unassigned_students,
                   not_viable, leftovers, result_df, log, pref_i, pos, i3, i4>>

\* one iteration of `for p in not_viable`
EvictProject ==
    /\ pc = "evict"
    /\ LET p == not_viable[ev_i]
       IN  /\ to_reassign' = to_reassign \o assignments[p]
           /\ assignments' = [assignments EXCEPT ![p] = <<>>]
    /\ ev_i' = ev_i + 1
    /\ pc' = IF ev_i < Len(not_viable) THEN "evict" ELSE "step3"
    /\ UNCHANGED <<inputs, assign_keys, assigned_set, unassigned_students,
                   not_viable, leftovers, result_df, log, pref_i, pos, i3, i4>>

\* ------------------------------------------------------------------
\* STEP 3: reassign dropped students
\* ------------------------------------------------------------------
\* the retry loop without `if proj in not_viable: continue`
RetryCellsAll(row) == row.Prefs

\* the preference cells the retry loop hands to can_assign, in rank order
RetryCells(row) ==
    SelectSeq(row.Prefs, LAMBDA proj : ~InSeq(proj, not_viable))

\* the retry loop without its `break`: the last cell can_assign accepts wins
RECURSIVE LastFeasible(_, _, _, _)
LastFeasible(row, cells, asg, k) ==
    IF k > Len(cells) THEN 0
    ELSE LET later == LastFeasible(row, cells, asg, k + 1)
         IN  IF later # 0 THEN later
             ELSE IF can_assign(row, cells[k], asg) THEN k
             ELSE 0

\* index in cells of the first cell can_assign accepts, 0 when there is none
RECURSIVE FirstFeasible(_, _, _, _)
FirstFeasible(row, cells, asg, k) ==
    IF k > Len(cells) THEN 0
    ELSE IF can_assign(row, cells[k], asg) THEN k
    ELSE FirstFeasible(row, cells, asg, k + 1)

\* the comprehension with != where the script has == on the project type
TypeCandidatesOtherType(row) ==
    SelectSeq(projects, LAMBDA p : ~InSeq(p, not_viable)
                                   /\ proj_types[p] # row.CompanyPreference)

\* the comprehension without `proj_types[p] == preferred_type`
TypeCandidatesAnyType(row) ==
    SelectSeq(projects, LAMBDA p : ~InSeq(p, not_viable))

\* the projects for which the comprehension calls can_assign
TypeCandidates(row) ==
    SelectSeq(projects, LAMBDA p : ~InSeq(p, not_viable)
                                   /\ proj_types[p] = row.CompanyPreference)

\* feasible = [p for p in projects if p not in not_viable
\*             and proj_types[p] == preferred_type and can_assign(row, p, assignments)]
Feasible(row, asg) ==
    SelectSeq(TypeCandidates(row), LAMBDA p : can_assign(row, p, asg))

ReassignStudent ==
    /\ pc = "step3"
    /\ i3 <= Len(to_reassign)
    /\ LET name  == to_reassign[i3]
           row   == df[name]
       IN  \E cells \in {RetryCells(row)} :
           \E k \in {FirstFeasible(row, cells, assignments, 1)} :
           \E feasible \in {IF k # 0 THEN <<>> ELSE Feasible(row, assignments)} :
           IF k # 0
           THEN /\ assignments' = [assignments EXCEPT ![cells[k]] = Append(@, name)]
                /\ assign_keys' = TouchAll(assign_keys, SubSeq(cells, 1, k))
                /\ unassigned_students' = unassigned_students
                /\ log' = Append(log, [kind |-> "retry", name |-> name,
                                       proj |-> cells[k], rank |-> 0])
           ELSE /\ assign_keys' = TouchAll(TouchAll(assign_keys, cells), TypeCandidates(row))
                /\ IF feasible # <<>>
                   THEN \E c \in 1..Len(feasible) :
                          /\ assignments' = [assignments EXCEPT ![feasible[c]] = Append(@, name)]
                          /\ unassigned_students' = unassigned_students
                          /\ log' = Append(log, [kind |-> "type", name |-> name,
                                                 proj |-> feasible[c], rank |-> 0])
                   ELSE /\ assignments' = assignments
                        /\ unassigned_students' = Append(unassigned_students, name)
                        /\ log' = Append(log, [kind |-> "unassigned", name |-> name,
                                               proj |-> UnknownProject, rank |-> 0])
    /\ i3' = i3 + 1
    /\ UNCHANGED <<inputs, assigned_set, phase, pc, pref_i, pos, ev_i, i4>>

\* ------------------------------------------------------------------
\* STEP 4: final balancing
\* ------------------------------------------------------------------
\* the comprehension without `and s not in unassigned_students`
LeftoversIgnoringUnassigned(asg, keys, unassigned) ==
    SelectSeq(NameColumn,
              LAMBDA s : \A j \in DOMAIN keys : ~InSeq(s, asg[keys[j]]))

\* leftovers = [s for s in df["Name"] if all(s not in group for group in
\*              assignments.values()) and s not in unassigned_students]
Leftovers(asg, keys, unassigned) ==
    SelectSeq(NameColumn,
              LAMBDA s : /\ \A j \in DOMAIN keys : ~InSeq(s, asg[keys[j]])
                         /\ ~InSeq(s, unassigned))

ComputeLeftovers ==
    /\ pc = "step3"
    /\ i3 > Len(to_reassign)
    /\ leftovers' = Leftovers(assignments, assign_keys, unassigned_students)
    /\ i4' = 1
    /\ pc' = "step4"
    /\ UNCHANGED <<inputs, ledger, not_viable, to_reassign, result_df, log,
                   pref_i, pos, ev_i, i3>>

PlaceLeftover ==
    /\ pc = "step4"
    /\ i4 <= Len(leftovers)
    /\ LET name == leftovers[i4]
           row  == df[name]
       IN  \E feasible \in {Feasible(row, assignments)} :
           /\ assign_keys' = TouchAll(assign_keys, TypeCandidates(row))
           /\ IF feasible # <<>>
              THEN \E c \in 1..Len(feasible) :
                     /\ assignments' = [assignments EXCEPT ![feasible[c]] = Append(@, name)]
                     /\ unassigned_students' = unassigned_students
                     /\ log' = Append(log, [kind |-> "balance", name |-> name,
                                            proj |-> feasible[c], rank |-> 0])
              ELSE /\ assignments' = assignments
                   /\ unassigned_students' = Append(unassigned_students, name)
                   /\ log' = Append(log, [kind |-> "unplaced", name |-> name,
                                          proj |-> UnknownProject, rank |-> 0])
    /\ i4' = i4 + 1
    /\ UNCHANGED <<inputs, assigned_set, phase, pc, pref_i, pos, ev_i, i3>>

\* ------------------------------------------------------------------
\* STEP 5: save results
\* ------------------------------------------------------------------
Reassigned == "Reassigned"

\* the rank loop counting from 0: range(0, 5) used as the rank
RECURSIVE FirstRankZeroBased(_, _, _)
FirstRankZeroBased(st, project, i) ==
    IF i > NumPrefs THEN 0
    ELSE IF st.Prefs[i] = project THEN i - 1
    ELSE FirstRankZeroBased(st, project, i + 1)

\* the loop `for i in range(1, 6)`: the first rank holding project, 0 for None
RECURSIVE FirstRank(_, _, _)
FirstRank(st, project, i) ==
    IF i > NumPrefs THEN 0
    ELSE IF st.Prefs[i] = project THEN i
    ELSE FirstRank(st, project, i + 1)

\* "PreferenceRank": rank if rank else "Reassigned"
PreferenceRank(st, project) ==
    LET rank == FirstRank(st, project, 1)
    IN  IF rank # 0 THEN [numeric |-> TRUE, rank |-> rank, text |-> ""]
        ELSE [numeric |-> FALSE, rank |-> 0, text |-> Reassigned]

LedgerRow(project, name) ==
    [Project |-> project, ProjectType |-> proj_types[project],
     Capacity |-> proj_capacity[project], Student |-> name,
     CompanyPreference |-> df[name].CompanyPreference,
     PreferenceRank |-> PreferenceRank(df[name], project)]

\* rows, in the order of the two nested loops over assignments.items()
RECURSIVE Rows(_, _)
Rows(keys, asg) ==
    IF keys = <<>> THEN <<>>
    ELSE [j \in 1..Len(asg[Head(keys)]) |-> LedgerRow(Head(keys), asg[Head(keys)][j])]
         \o Rows(Tail(keys), asg)

\* the order of sort_values(["Student"]): the project column left out of the sort keys
RowBeforeByStudent(a, b) == a.Student < b.Student

\* the order of sort_values(["Project", "Student"])
RowBefore(a, b) ==
    \/ a.Project < b.Project
    \/ a.Project = b.Project /\ a.Student < b.Student

RECURSIVE InsertRow(_, _)
InsertRow(r, sorted) ==
    IF sorted = <<>> THEN <<r>>
    ELSE IF RowBefore(r, Head(sorted)) THEN <<r>> \o sorted
    ELSE <<Head(sorted)>> \o InsertRow(r, Tail(sorted))

\* pd.DataFrame(rows).sort_values(["Project", "Student"]).reset_index(drop=True)
RECURSIVE SortValues(_)
SortValues(rows) ==
    IF rows = <<>> THEN <<>>
    ELSE InsertRow(Head(rows), SortValues(Tail(rows)))

\* with no row at all the frame has no "Project" column and sort_values raises KeyError
SaveResults ==
    /\ pc = "step4"
    /\ i4 > Len(leftovers)
    /\ \E rows \in {Rows(assign_keys, assignments)} :
           IF rows = <<>>
           THEN result_df' = result_df /\ pc' = "KeyError"
           ELSE result_df' = SortValues(rows) /\ pc' = "done"
    /\ UNCHANGED <<inputs, ledger, not_viable, to_reassign, leftovers, log,
                   pref_i, pos, ev_i, i3, i4>>

Next ==
    \/ InitialVisit
    \/ DropUndersubscribed
    \/ EvictProject
    \/ ReassignStudent
    \/ ComputeLeftovers
    \/ PlaceLeftover
    \/ SaveResults

Spec == Init /\ [][Next]_vars

\* the script run on the tables of the balanced scenario
BalancedSpec == BalancedInit /\ [][Next]_vars

\* ------------------------------------------------------------------
\* Vocabulary of the properties
\* ------------------------------------------------------------------
\* the members of project p, as a set
Members(p) == {assignments[p][i] : i \in DOMAIN assignments[p]}

\* how many times student s occurs in the member lists, all projects together
Occurrences(s) ==
    Cardinality({<<p, i>> \in Projects \X (1..Cardinality(Names)) :
                    i \in DOMAIN assignments[p] /\ assignments[p][i] = s})

\* how many times student s occurs in unassigned_students
TimesUnassigned(s) ==
    Cardinality({i \in DOMAIN unassigned_students : unassigned_students[i] = s})

TotalAssigned == Sum([p \in Projects |-> Len(assignments[p])])

HasEvent(kind) == \E k \in DOMAIN log : log[k].kind = kind

\* the member count of p when the initial preference pass ended
EndOfPassCount(p) ==
    Cardinality({k \in DOMAIN log : log[k].kind = "initial" /\ log[k].proj = p})

Pruned == pc \notin {"step1", "step2"}
BalancingDone == (pc = "step4" /\ i4 > Len(leftovers)) \/ pc \in {"done", "KeyError"}
Finished == pc \in {"done", "KeyError"}

\* ------------------------------------------------------------------
\* C1  Capacity invariant: in every reachable state no project has more
\*     members than its capacity.
\* ------------------------------------------------------------------
CapacityInvariant ==
    \A p \in Projects : Len(assignments[p]) <= proj_capacity[p]

\* a project of capacity two or more is full and a student whose first choice it
\* was sits elsewhere or nowhere
CapacityWitness ==
    /\ pc = "done"
    /\ \E p \in Projects :
          /\ proj_capacity[p] >= 2
          /\ Len(assignments[p]) = proj_capacity[p]
          /\ \E s \in Names : df[s].Prefs[1] = p /\ s \notin Members(p)

\* ------------------------------------------------------------------
\* C2  Single membership: in every reachable state each student occurs at
\*     most once in all the member lists together.
\* ------------------------------------------------------------------
SingleMembership ==
    \A s \in Names : Occurrences(s) <= 1

\* the run ended after an evicted student was placed again and a leftover
\* student was placed by the final balancing
SingleMembershipWitness ==
    /\ pc = "done"
    /\ HasEvent("retry")
    /\ HasEvent("balance")

\* ------------------------------------------------------------------
\* C3  Conservation: once final balancing has completed, the member lists and
\*     the unassigned list together hold every student exactly once.
\* ------------------------------------------------------------------
Conservation ==
    BalancingDone =>
        /\ TotalAssigned + Len(unassigned_students) = Cardinality(Names)
        /\ \A s \in Names : Occurrences(s) + TimesUnassigned(s) = 1

\* final balancing completed with evicted students, a student left unassigned
\* and a student placed
ConservationWitness ==
    /\ BalancingDone
    /\ to_reassign # <<>>
    /\ unassigned_students # <<>>
    /\ TotalAssigned > 0

\* ------------------------------------------------------------------
\* C4  Eviction finality: a project of the non-viable list has no member from
\*     its eviction onward, and no later placement names it.
\* ------------------------------------------------------------------
EvictionFinality ==
    /\ \A j \in DOMAIN not_viable :
          j < ev_i => assignments[not_viable[j]] = <<>>
    /\ \A k \in DOMAIN log :
          log[k].kind \in {"retry", "type", "balance"} => ~InSeq(log[k].proj, not_viable)

\* the run ended with a non-viable project that a student placed after the
\* pruning had ranked, or whose type that student prefers
EvictionFinalityWitness ==
    /\ pc = "done"
    /\ \E k \in DOMAIN log :
          /\ log[k].kind \in {"retry", "type", "balance"}
          /\ \E j \in DOMAIN not_viable :
                \/ InSeq(not_viable[j], df[log[k].name].Prefs)
                \/ proj_types[not_viable[j]] = df[log[k].name].CompanyPreference

\* ------------------------------------------------------------------
\* C5  Pruner completeness: every project whose member count at the end of the
\*     initial pass is below floor(capacity/2), a project with no member
\*     included, is in the non-viable list and ends the run with no member.
\* ------------------------------------------------------------------
PrunerCompleteness ==
    Pruned =>
        \A p \in Projects :
            EndOfPassCount(p) < proj_capacity[p] \div 2 =>
                /\ InSeq(p, not_viable)
                /\ Finished => assignments[p] = <<>>

\* ------------------------------------------------------------------
\* C6  Unassigned only on exhaustion.
\* ------------------------------------------------------------------
\* a step that records a student as unassigned
RecordsUnassigned == Len(unassigned_students') = Len(unassigned_students) + 1
JustRecorded == unassigned_students'[Len(unassigned_students')]

Viable(p) == p \in Projects /\ ~InSeq(p, not_viable)

AttributeCaps ==
    \A p \in Projects :
        /\ \A n \in Nationalities :
              Cardinality({m \in Members(p) : df[m].Nationality = n}) <= 2
        /\ \A b \in Backgrounds :
              Cardinality({m \in Members(p) : df[m].Background = b}) <= 2

\* a project with room left holds two students of one nationality, and a third
\* student of that nationality whose first choice it was is not in it
AttributeCapsWitness ==
    /\ pc = "done"
    /\ \E p \in Projects : \E s \in Names :
          /\ Len(assignments[p]) < proj_capacity[p]
          /\ df[s].Prefs[1] = p
          /\ s \notin Members(p)
          /\ Cardinality({m \in Members(p) : df[m].Nationality = df[s].Nationality}) = 2
          /\ Cardinality({m \in Members(p) : df[m].Background = df[s].Background}) < 2

\* ------------------------------------------------------------------
\* C8  Overlap: in every reachable state the members of a project with two or
\*     more members share at least 2 slots, and can_assign accepts any student
\*     for a project that has no member.
\* ------------------------------------------------------------------
OverlapInvariant ==
    \A p \in Projects :
        /\ Len(assignments[p]) >= 2 =>
              Cardinality(SetIntersection({SlotSet(df[m].TimeSlots) : m \in Members(p)})) >= 2
        /\ assignments[p] = <<>> =>
              \A s \in Names : can_assign(df[s], p, assignments)

\* a project holds two students whose TimeSlots cells differ, and a student with
\* a single slot is the only member of another project
OverlapWitness ==
    /\ pc = "done"
    /\ \E p \in Projects : \E a, b \in Members(p) : df[a].TimeSlots # df[b].TimeSlots
    /\ \E p \in Projects : \E s \in Names :
          /\ assignments[p] = <<s>>
          /\ Cardinality(SlotSet(df[s].TimeSlots)) < 2

\* ------------------------------------------------------------------
\* C9  Rank correctness: a numeric PreferenceRank r of a ledger row is in 1..5
\*     and the row's project is the student's Pref r; the rank is "Reassigned"
\*     exactly when the project is none of the student's five ranked projects.
\* ------------------------------------------------------------------
RankCorrectness ==
    \A k \in DOMAIN result_df :
        LET row == result_df[k]
            st  == df[row.Student]
            pr  == row.PreferenceRank
        IN  /\ pr.numeric =>
                  /\ pr.rank \in 1..5
                  /\ st.Prefs[pr.rank] = row.Project
            /\ ~pr.numeric <=> ~InSeq(row.Project, st.Prefs)
            /\ ~pr.numeric <=> pr.text = "Reassigned"

\* the ledger has a row of rank 2 or more and a row marked Reassigned
RankCorrectnessWitness ==
    /\ pc = "done"
    /\ \E k \in DOMAIN result_df :
          result_df[k].PreferenceRank.numeric /\ result_df[k].PreferenceRank.rank >= 2
    /\ \E k \in DOMAIN result_df : ~result_df[k].PreferenceRank.numeric

\* ------------------------------------------------------------------
\* C10 Reassignment order: evicted students are all processed before any
\*     never-evicted unassigned student; a processed student who has a ranked
\*     viable feasible project is placed in the first of them in rank order,
\*     and a type-affinity choice is made only when there is none.
\* ------------------------------------------------------------------
\* the ranks of row whose project is viable and passes can_assign
RankedFeasible(row) ==
    {r \in 1..NumPrefs : Viable(row.Prefs[r]) /\ can_assign(row, row.Prefs[r], assignments)}

Least(S) == CHOOSE x \in S : \A y \in S : x <= y

\* a step of STEP 3 or STEP 4 that processes one student
ProcessesStudent == pc \in {"step3", "step4"} /\ Len(log') = Len(log) + 1

ReassignmentOrder ==
    [][ProcessesStudent =>
          LET e   == log'[Len(log')]
              row == df[e.name]
              R   == RankedFeasible(row)
          IN  /\ R # {} =>
                    /\ e.kind = "retry"
                    /\ e.proj = row.Prefs[Least(R)]
                    /\ assignments' = [assignments EXCEPT ![e.proj] = Append(@, e.name)]
              /\ e.kind \in {"type", "balance"} => R = {}
              /\ e.kind \in {"retry", "type", "unassigned"} =>
                    /\ InSeq(e.name, to_reassign)
                    /\ ~\E k \in DOMAIN log : log[k].kind \in {"balance", "unplaced"}
              /\ e.kind \in {"balance", "unplaced"} =>
                    /\ ~InSeq(e.name, to_reassign)
                    /\ \A j \in DOMAIN to_reassign :
                          \E k \in DOMAIN log :
                              /\ log[k].name = to_reassign[j]
                              /\ log[k].kind \in {"retry", "type", "unassigned"}]_vars

\* an evicted student was placed in their second-ranked project while their
\* third-ranked project was viable and would have accepted them too
ReassignmentOrderWitness ==
    \E k \in DOMAIN log :
        LET row == df[log[k].name]
        IN  /\ log[k].kind = "retry"
            /\ log[k].proj = row.Prefs[2]
            /\ row.Prefs[3] # row.Prefs[2]
            /\ Viable(row.Prefs[3])
            /\ can_assign(row, row.Prefs[3], assignments)

\* ------------------------------------------------------------------
\* C11 Only the pruner rolls back: member lists only grow during the initial
\*     pass; a student leaves a member list only in an eviction step, which
\*     empties the whole list of one non-viable project, once per project;
\*     after the pruning member lists and the unassigned list only grow, and
\*     a student recorded as unassigned is never placed afterwards.
\* ------------------------------------------------------------------
IsPrefix(a, b) == Len(a) <= Len(b) /\ SubSeq(b, 1, Len(a)) = a

\* a step that takes some student out of the member list of p
RemovesFrom(p) ==
    \E i \in DOMAIN assignments[p] : ~InSeq(assignments[p][i], assignments'[p])

OnlyPrunerRollsBack ==
    [][/\ pc = "step1" => \A p \in Projects : IsPrefix(assignments[p], assignments'[p])
       /\ \A p \in Projects :
             RemovesFrom(p) =>
                 /\ pc = "evict"
                 /\ p = not_viable[ev_i]
                 /\ assignments'[p] = <<>>
                 /\ \A j \in 1..(ev_i - 1) : not_viable[j] # p
                 /\ \A q \in Projects \ {p} : assignments'[q] = assignments[q]
       /\ pc = "evict" => assignments'[not_viable[ev_i]] = <<>>
       /\ pc \notin {"step1", "step2", "evict"} =>
             \A p \in Projects : IsPrefix(assignments[p], assignments'[p])
       /\ IsPrefix(unassigned_students, unassigned_students')
       /\ \A k \in DOMAIN unassigned_students :
             \A p \in Projects : ~InSeq(unassigned_students[k], assignments'[p])]_vars

\* a project that held two members was evicted, one of the evicted students was
\* recorded as unassigned, and a never-assigned student was placed after that
OnlyPrunerRollsBackWitness ==
    /\ pc = "done"
    /\ \E j \in DOMAIN not_viable : EndOfPassCount(not_viable[j]) >= 2
    /\ \E k1, k2 \in DOMAIN log :
          /\ k1 < k2
          /\ log[k1].kind = "unassigned"
          /\ log[k2].kind = "balance"

\* ------------------------------------------------------------------
\* C13 Ledger sort order.
\* ------------------------------------------------------------------
\* C13 as claimed: the ledger rows are ordered by project id, then by derived
\* rank, then by student id; within one project a row with a lower numeric
\* rank never follows a row with a higher one.
LedgerOrderedByRank ==
    \A j, k \in DOMAIN result_df :
        j < k =>
            LET a == result_df[j]
                b == result_df[k]
            IN  /\ a.Project <= b.Project
                /\ (a.Project = b.Project /\ a.PreferenceRank.numeric
                                          /\ b.PreferenceRank.numeric)
                       => a.PreferenceRank.rank <= b.PreferenceRank.rank
                /\ (a.Project = b.Project /\ a.PreferenceRank = b.PreferenceRank)
                       => a.Student < b.Student

\* C13 as amended: the ledger rows are ordered by project id, then by student
\* id; the derived rank plays no part in the order.
LedgerOrderedByProjectAndStudent ==
    \A j, k \in DOMAIN result_df :
        j < k =>
            \/ result_df[j].Project < result_df[k].Project
            \/ /\ result_df[j].Project = result_df[k].Project
               /\ result_df[j].Student < result_df[k].Student

\* the ledger names two projects, and in one of them the row of the student
\* with the smaller id has the higher numeric rank
LedgerOrderWitness ==
    /\ pc = "done"
    /\ \E j, k \in DOMAIN result_df : result_df[j].Project # result_df[k].Project
    /\ \E j, k \in DOMAIN result_df :
          /\ result_df[j].Project = result_df[k].Project
          /\ result_df[j].Student < result_df[k].Student
          /\ result_df[j].PreferenceRank.numeric
          /\ result_df[k].PreferenceRank.numeric
          /\ result_df[j].PreferenceRank.rank > result_df[k].PreferenceRank.rank

\* ------------------------------------------------------------------
\* C14 Balanced scenario.
\* ------------------------------------------------------------------
\* the students whose Pref1 is p
FirstChoosers(p) == {s \in Names : df[s].Prefs[1] = p}

\* the input the claim describes: 8 students, 2 projects of capacity 4, 4
\* first-choice students each, no nationality more than twice among them
ScenarioInput ==
    /\ Cardinality(Names) = ScenarioStudents
    /\ Projects = {1, 2}
    /\ \A p \in Projects :
          /\ proj_capacity[p] = ScenarioCapacity
          /\ Cardinality(FirstChoosers(p)) = ScenarioCapacity
          /\ \A n \in Nationalities :
                Cardinality({s \in FirstChoosers(p) : df[s].Nationality = n}) <= 2

\* no background more than twice among the first-choice students of a project,
\* and at least two time slots that all of them share
ScenarioCompatible ==
    \A p \in Projects :
        /\ \A b \in Backgrounds :
              Cardinality({s \in FirstChoosers(p) : df[s].Background = b}) <= 2
        /\ Cardinality(SetIntersection({SlotSet(df[s].TimeSlots) : s \in FirstChoosers(p)}))
               >= 2

NothingRolledBack ==
    not_viable = <<>> /\ to_reassign = <<>> /\ unassigned_students = <<>>

\* 4 members in each project, every student in their Pref1 project with rank 1
\* in the ledger, no project pruned, no student unassigned
ScenarioOutcome ==
    /\ pc = "done"
    /\ \A p \in Projects : Len(assignments[p]) = ScenarioCapacity
    /\ \A s \in Names : s \in Members(df[s].Prefs[1])
    /\ Len(result_df) = ScenarioStudents
    /\ \A k \in DOMAIN result_df :
          /\ result_df[k].PreferenceRank.numeric
          /\ result_df[k].PreferenceRank.rank = 1
          /\ result_df[k].Project = df[result_df[k].Student].Prefs[1]
    /\ NothingRolledBack

\* C14 as claimed: on every input of the scenario the run ends, whatever the
\* visitation order, with 4 members in each project, every student in their
\* Pref1 project with rank 1, no project pruned and no student unassigned.
BalancedScenario ==
    ScenarioInput =>
        /\ NothingRolledBack
        /\ Finished => ScenarioOutcome

\* the initial pass is in its first rank and has committed every student visited
CommittedOnFirstVisit ==
    pc = "step1" => pref_i = 1 /\ TotalAssigned = pos - 1

\* C14 as amended: the same outcome on every input of the scenario in which,
\* among the 4 first-choice students of each project, no background occurs
\* more than twice either and all four share at least 2 time slots; every
\* student is then committed to their Pref1 project when first visited.
BalancedCompatibleScenario ==
    (ScenarioInput /\ ScenarioCompatible) =>
        /\ CommittedOnFirstVisit
        /\ NothingRolledBack
        /\ Finished => ScenarioOutcome

\* a run on a compatible input of the scenario ended; the visitation order was
\* not the table order and two first-choice students of one project have
\* different TimeSlots cells
BalancedScenarioWitness ==
    /\ pc = "done"
    /\ ScenarioInput
    /\ ScenarioCompatible
    /\ student_order # NameColumn
    /\ \E p \in Projects : \E a, b \in FirstChoosers(p) : df[a].TimeSlots # df[b].TimeSlots

\* ------------------------------------------------------------------
\* C15 Fixed visitation priority in the initial pass: student_order never
\*     changes, the pass moves forward through (rank, position in
\*     student_order) and commits the student at that position; and if s and
\*     t are both unassigned when rank pass r begins, both have p as rank-r
\*     choice, s precedes t in the order and t is committed to p in that
\*     pass, then s was committed to p in that pass or can_assign rejected s
\*     for p when s was visited.
\* ------------------------------------------------------------------
OrderPos(s) == CHOOSE i \in DOMAIN student_order : student_order[i] = s

\* e records a commitment made before student s is visited in rank pass r
CommittedBeforeVisit(e, r, s) ==
    /\ e.kind = "initial"
    /\ \/ e.rank < r
       \/ e.rank = r /\ OrderPos(e.name) < OrderPos(s)

\* the member lists as they were when s was visited in rank pass r, read off
\* the placement lines printed by the pass
MembersAtVisit(r, s) ==
    [q \in Projects |->
        LET lines == SelectSeq(log, LAMBDA e : CommittedBeforeVisit(e, r, s) /\ e.proj = q)
        IN  [i \in 1..Len(lines) |-> lines[i].name]]

UnassignedAtPassStart(s, r) ==
    ~\E k \in DOMAIN log :
        log[k].kind = "initial" /\ log[k].name = s /\ log[k].rank < r

CommittedInPass(s, p, r) ==
    \E k \in DOMAIN log :
        log[k].kind = "initial" /\ log[k].name = s /\ log[k].proj = p /\ log[k].rank = r

\* the placement lines of the pass come in the order of (rank, position)
CommitsInVisitOrder ==
    \A j, k \in DOMAIN log :
        (j < k /\ log[j].kind = "initial" /\ log[k].kind = "initial") =>
            \/ log[j].rank < log[k].rank
            \/ /\ log[j].rank = log[k].rank
               /\ OrderPos(log[j].name) < OrderPos(log[k].name)

EarlierStudentFirst ==
    \A k \in DOMAIN log :
        log[k].kind = "initial" =>
            LET t == log[k].name
                p == log[k].proj
                r == log[k].rank
            IN  \A s \in Names :
                    (/\ OrderPos(s) < OrderPos(t)
                     /\ df[s].Prefs[r] = p
                     /\ UnassignedAtPassStart(s, r))
                    => \/ CommittedInPass(s, p, r)
                       \/ ~can_assign(df[s], p, MembersAtVisit(r, s))

FixedVisitationPriority ==
    [][/\ student_order' = student_order
       /\ (pc = "step1" /\ pc' = "step1") =>
              \/ pref_i' > pref_i
              \/ pref_i' = pref_i /\ pos' > pos
       /\ (pc = "step1" /\ Len(log') > Len(log)) =>
              /\ log'[Len(log')].name = student_order[pos]
              /\ log'[Len(log')].rank = pref_i
              /\ log'[Len(log')].proj = df[student_order[pos]].Prefs[pref_i]
       /\ CommitsInVisitOrder'
       /\ EarlierStudentFirst']_vars

\* the initial pass ended; a student was committed to a project in a pass in
\* which an earlier student of the order with the same choice was rejected,
\* and another student was committed in a later rank pass
FixedVisitationPriorityWitness ==
    /\ pc = "step2"
    /\ \E k \in DOMAIN log :
          /\ log[k].kind = "initial"
          /\ \E s \in Names :
                /\ OrderPos(s) < OrderPos(log[k].name)
                /\ df[s].Prefs[log[k].rank] = log[k].proj
                /\ UnassignedAtPassStart(s, log[k].rank)
                /\ ~CommittedInPass(s, log[k].proj, log[k].rank)
    /\ \E k \in DOMAIN log : log[k].kind = "initial" /\ log[k].rank > 1

\* ------------------------------------------------------------------
\* C16 Feasibility is anti-monotone and the first pass is saturating: a step
\*     that adds members to a project never turns can_assign from false to
\*     true for any student; when the initial pass has ended no student it
\*     left unassigned has a ranked project that can_assign accepts; and from
\*     then on a student who was never assigned and is in no project has no
\*     ranked viable project that can_assign accepts.
\* ------------------------------------------------------------------
\* a step that only adds members to project p
AddsMembersTo(p) ==
    assignments'[p] # assignments[p] /\ IsPrefix(assignments[p], assignments'[p])

AntiMonotoneStep ==
    \A p \in Projects :
        AddsMembersTo(p) =>
            \A s \in Names :
                can_assign(df[s], p, assignments') => can_assign(df[s], p, assignments)

\* never committed by the initial pass and in no member list
NeverAssigned(s) == s \notin assigned_set /\ Occurrences(s) = 0

Saturated ==
    /\ pc = "step2" =>
          \A s \in Names :
              s \notin assigned_set =>
                  \A r \in 1..NumPrefs : ~can_assign(df[s], df[s].Prefs[r], assignments)
    /\ pc # "step1" =>
          \A s \in Names :
              NeverAssigned(s) =>
                  \A r \in 1..NumPrefs :
                      Viable(df[s].Prefs[r]) =>
                          ~can_assign(df[s], df[s].Prefs[r], assignments)

AntiMonotoneSaturating == [][AntiMonotoneStep /\ Saturated']_vars

\* the run ended with evicted students and with a student who was never
\* assigned, is in no project, and ranked a viable project that still has a
\* free seat
AntiMonotoneSaturatingWitness ==
    /\ pc = "done"
    /\ to_reassign # <<>>
    /\ \E s \in Names :
          /\ NeverAssigned(s)
          /\ \E r \in 1..NumPrefs :
                /\ Viable(df[s].Prefs[r])
                /\ Len(assignments[df[s].Prefs[r]]) < proj_capacity[df[s].Prefs[r]]

\* ------------------------------------------------------------------
\* C17 Sentinel implies type match: a ledger row marked "Reassigned" names a
\*     project whose type is the student's CompanyPreference, and in every
\*     reachable state each member of a project ranked it or prefers its type.
\* ------------------------------------------------------------------
SentinelImpliesTypeMatch ==
    /\ \A k \in DOMAIN result_df :
          (~result_df[k].PreferenceRank.numeric
             /\ result_df[k].PreferenceRank.text = Reassigned) =>
              /\ proj_types[result_df[k].Project] = df[result_df[k].Student].CompanyPreference
              /\ result_df[k].ProjectType = result_df[k].CompanyPreference
    /\ \A p \in Projects :
          \A s \in Members(p) :
              \/ InSeq(p, df[s].Prefs)
              \/ proj_types[p] = df[s].CompanyPreference

\* the ledger has a row marked "Reassigned" of a student who did not rank a
\* viable project of the other type that ends the run with a free seat
SentinelWitness ==
    /\ pc = "done"
    /\ \E k \in DOMAIN result_df :
          /\ ~result_df[k].PreferenceRank.numeric
          /\ \E q \in Projects :
                /\ Viable(q)
                /\ proj_types[q] # df[result_df[k].Student].CompanyPreference
                /\ ~InSeq(q, df[result_df[k].Student].Prefs)
                /\ Len(assignments[q]) < proj_capacity[q]

=============================================================================
